---------------------------- MODULE Spec2Model ----------------------------
(***************************************************************************)
(* Breeze: FlowOrchestrator.process_command (flow.py), the Approval Gate   *)
(* SafetyCheckNode.approve_changes (nodes.py), the Output Handler          *)
(* FlowOrchestrator._handle_output (flow.py) and the path derivation       *)
(* get_output_filename (utils.py).                                         *)
(*                                                                         *)
(* Text that the code takes apart (file names, suffixes, the user's answer *)
(* at the approval prompt) is a sequence of one-character strings, so that *)
(* lower(), strip(), Path.stem and Path.suffix are computed.  Text that    *)
(* the code only passes along (file content, the remote service's answer,  *)
(* notices) is an opaque string.  An Optional[...] value is a sequence of  *)
(* length 0 (None) or 1.  The verbose flag only prints and is left out.    *)
(***************************************************************************)
EXTENDS Integers, Sequences, FiniteSets, TLC

\* Longest run of answers the user types at one approval prompt.
MaxInputs == 3

(***************************************************************************)
(* Strings                                                                 *)
(***************************************************************************)
UpperChars == <<"A","B","C","D","E","F","G","H","I","J","K","L","M",
                "N","O","P","Q","R","S","T","U","V","W","X","Y","Z">>
LowerChars == <<"a","b","c","d","e","f","g","h","i","j","k","l","m",
                "n","o","p","q","r","s","t","u","v","w","x","y","z">>
Whitespace == {" ", "\t", "\n", "\r"}

\* str.lower() on one character
LowerChar(c) ==
    IF \E i \in 1..Len(UpperChars) : UpperChars[i] = c
    THEN LowerChars[CHOOSE i \in 1..Len(UpperChars) : UpperChars[i] = c]
    ELSE c

\* str.lower()
Lower(s) == [i \in 1..Len(s) |-> LowerChar(s[i])]

\* str.strip(): drop leading and trailing whitespace
Strip(s) ==
    LET keep == {i \in 1..Len(s) : s[i] \notin Whitespace}
    IN  IF keep = {} THEN <<>>
        ELSE LET lo == CHOOSE i \in keep : \A j \in keep : i <= j
                 hi == CHOOSE i \in keep : \A j \in keep : j <= i
             IN  SubSeq(s, lo, hi)

\* Truthiness of an Optional[str] holding an opaque string (None and "" are falsy)
Truthy(opt) == opt # <<>> /\ opt[1] # ""

\* the same of text kept as characters
TruthyText(opt) == opt # <<>> /\ opt[1] # <<>>

\* Truthiness of an Optional[str] holding a path
TruthyPath(opt) == opt # <<>> /\ (opt[1].dir # <<>> \/ opt[1].name # <<>>)

\* dict.get(key, default) on a table of <<key, value>> pairs
Lookup(table, key, default) ==
    IF \E i \in 1..Len(table) : table[i][1] = key
    THEN table[CHOOSE i \in 1..Len(table) : table[i][1] = key][2]
    ELSE default

(***************************************************************************)
(* pathlib.  A path is [dir |-> the directory names, name |-> the final    *)
(* component]; every name is a character sequence.                         *)
(***************************************************************************)
\* str.rfind('.') + 1, 0 when there is no dot
LastDot(name) ==
    LET dots == {i \in 1..Len(name) : name[i] = "."}
    IN  IF dots = {} THEN 0 ELSE CHOOSE i \in dots : \A j \in dots : j <= i

\* PurePath.suffix
Suffix(name) ==
    LET i == LastDot(name)
    IN  IF 1 < i /\ i < Len(name) THEN SubSeq(name, i, Len(name)) ELSE <<>>

\* PurePath.stem
Stem(name) ==
    LET i == LastDot(name)
    IN  IF 1 < i /\ i < Len(name) THEN SubSeq(name, 1, i - 1) ELSE name

\* every directory on the way to dir, dir included (mkdir(parents=True))
Ancestors(dir) == {SubSeq(dir, 1, k) : k \in 0..Len(dir)}

(***************************************************************************)
(* utils.py: file types and derived output names                           *)
(***************************************************************************)
utils_type_mapping ==
    << <<<<".","p","y">>, "python">>
    ,  <<<<".","j","s">>, "javascript">>
    ,  <<<<".","t","s">>, "typescript">>
    ,  <<<<".","j","a","v","a">>, "java">>
    ,  <<<<".","c","p","p">>, "cpp">>
    ,  <<<<".","c">>, "c">>
    ,  <<<<".","c","s">>, "csharp">>
    ,  <<<<".","p","h","p">>, "php">>
    ,  <<<<".","r","b">>, "ruby">>
    ,  <<<<".","g","o">>, "go">>
    ,  <<<<".","r","s">>, "rust">>
    ,  <<<<".","s","w","i","f","t">>, "swift">>
    ,  <<<<".","k","t">>, "kotlin">>
    ,  <<<<".","s","c","a","l","a">>, "scala">>
    ,  <<<<".","h","t","m","l">>, "html">>
    ,  <<<<".","c","s","s">>, "css">>
    ,  <<<<".","s","q","l">>, "sql">>
    ,  <<<<".","j","s","o","n">>, "json">>
    ,  <<<<".","x","m","l">>, "xml">>
    ,  <<<<".","y","a","m","l">>, "yaml">>
    ,  <<<<".","y","m","l">>, "yaml">>
    ,  <<<<".","m","d">>, "markdown">>
    ,  <<<<".","t","x","t">>, "text">>
    ,  <<<<".","s","h">>, "shell">>
    ,  <<<<".","b","a","t">>, "batch">>
    ,  <<<<".","p","s","1">>, "powershell">>
    >>

\* utils.get_file_extension
get_file_extension(p) == Lower(Suffix(p.name))

\* utils.get_file_type
get_file_type(p) == Lookup(utils_type_mapping, get_file_extension(p), "text")

\* nodes.py defines its own get_file_type, with more extensions
nodes_type_mapping ==
    utils_type_mapping \o
    << <<<<".","j","s","x">>, "javascript">>
    ,  <<<<".","t","s","x">>, "typescript">>
    ,  <<<<".","c","c">>, "cpp">>
    ,  <<<<".","c","x","x">>, "cpp">>
    ,  <<<<".","h","t","m">>, "html">>
    ,  <<<<".","s","c","s","s">>, "css">>
    ,  <<<<".","s","a","s","s">>, "css">>
    ,  <<<<".","b","a","s","h">>, "shell">>
    ,  <<<<".","z","s","h">>, "shell">>
    ,  <<<<".","c","m","d">>, "batch">>
    >>

nodes_get_file_type(p) == Lookup(nodes_type_mapping, Lower(Suffix(p.name)), "text")

test_extensions ==
    << <<"python", <<".","p","y">>>>
    ,  <<"javascript", <<".","t","e","s","t",".","j","s">>>>
    ,  <<"typescript", <<".","t","e","s","t",".","t","s">>>>
    ,  <<"java", <<".","j","a","v","a">>>>
    ,  <<"cpp", <<".","c","p","p">>>>
    ,  <<"c", <<".","c">>>>
    ,  <<"csharp", <<".","c","s">>>>
    ,  <<"php", <<".","p","h","p">>>>
    ,  <<"ruby", <<".","r","b">>>>
    ,  <<"go", <<"_","t","e","s","t",".","g","o">>>>
    ,  <<"rust", <<".","r","s">>>>
    >>

\* utils._get_test_extension
get_test_extension(file_type) == Lookup(test_extensions, file_type, <<".","t","x","t">>)

tests_name == <<"t","e","s","t","s">>

\* the `extensions` table of utils.get_output_filename
output_extensions(p) ==
    << <<"doc",       <<".","d","o","c","u","m","e","n","t","e","d">> \o Suffix(p.name)>>
    ,  <<"summarize", <<".","s","u","m","m","a","r","y",".","m","d">>>>
    ,  <<"test",      <<"t","e","s","t","_">> \o Stem(p.name)
                          \o get_test_extension(get_file_type(p))>>
    ,  <<"inspect",   <<".","i","n","s","p","e","c","t","i","o","n",".","m","d">>>>
    ,  <<"refactor",  <<".","r","e","f","a","c","t","o","r","e","d">> \o Suffix(p.name)>>
    ,  <<"annotate",  <<".","a","n","n","o","t","a","t","e","d">> \o Suffix(p.name)>>
    ,  <<"migrate",   <<".","m","i","g","r","a","t","e","d">> \o Suffix(p.name)>>
    >>

\* Faulty variant: the marker is the suffix alone, so the name stays as it is
get_output_filename_same_name(p, cmd) ==
    IF cmd = "test"
    THEN [dir  |-> p.dir \o <<tests_name>>,
          name |-> <<"t","e","s","t","_">> \o Stem(p.name)
                       \o get_test_extension(get_file_type(p))]
    ELSE [dir |-> p.dir, name |-> Stem(p.name) \o Suffix(p.name)]

\* Faulty variant: without the special case for test
get_output_filename_no_tests_dir(p, cmd) ==
    LET extension == Lookup(output_extensions(p), cmd,
                            <<".","o","u","t","p","u","t",".","t","x","t">>)
    IN  [dir |-> p.dir, name |-> Stem(p.name) \o extension]

\* utils.get_output_filename: the path it returns
get_output_filename(p, cmd) ==
    LET extension == Lookup(output_extensions(p), cmd,
                            <<".","o","u","t","p","u","t",".","t","x","t">>)
    IN  IF cmd = "test"
        THEN [dir  |-> p.dir \o <<tests_name>>,
              name |-> <<"t","e","s","t","_">> \o Stem(p.name)
                           \o get_test_extension(get_file_type(p))]
        ELSE [dir |-> p.dir, name |-> Stem(p.name) \o extension]

(***************************************************************************)
(* The world: files, the remote service, the user at the prompt            *)
(***************************************************************************)
File(dir, name) == [dir |-> dir, name |-> name]

a_py          == File(<<>>, <<"a",".","p","y">>)
a_refactored  == File(<<>>, <<"a",".","r","e","f","a","c","t","o","r","e","d",".","p","y">>)
w_JS          == File(<<>>, <<"w",".","J","S">>)
m_py          == File(<<>>, <<"m",".","p","y">>)
d_b_txt       == File(<< <<"d">> >>, <<"b",".","t","x","t">>)
d_tests       == File(<< <<"d">> >>, <<"t","e","s","t","s">>)
u_py          == File(<<>>, <<"u",".","p","y">>)
d_dir         == File(<<>>, <<"d">>)

\* the content of a file that read_file_content cannot decode as UTF-8
Undecodable == "undecodable"

\* The files on disk before a request: a.py and d/b.txt hold code, w.JS is
\* empty, a.refactored.py is left from an earlier run, d/tests is a regular
\* file (so no directory d/tests can be made), u.py is not UTF-8; m.py does
\* not exist.
InitialFiles ==
    (a_py :> "code") @@ (d_b_txt :> "code") @@ (w_JS :> "")
        @@ (a_refactored :> "old") @@ (d_tests :> "notes")
        @@ (u_py :> Undecodable)

InitialDirs == {<<>>, << <<"d">> >>}

\* the path argument of a request: None, or one of these
SourcePaths == {a_py, d_b_txt, w_JS, m_py}

Commands == {"doc", "summarize", "test", "inspect", "refactor", "annotate", "migrate"}

\* command keys a caller can pass: the seven, and one that is none of them
CommandKeys == Commands \cup {"lint"}

OutputModes == {"console", "in-place", "new-file"}

\* the target argument: None, "", or a target
Python_3_12 == <<"P","y","t","h","o","n"," ","3",".","1","2">>
Targets == {<<>>, << <<>> >>, <<Python_3_12>>}

\* what one generate_content call does: answers with text, answers with no
\* candidate (or a candidate of no content), answers with a candidate whose
\* content has no parts, or raises
RemoteOutcomes == {"text", "empty", "no_parts", "raise"}

RemoteText == "generated"

\* what the user types at the prompt
RawResponses ==
    { <<"y">>, <<" ","Y","E","S"," ">>, <<"n">>, <<"N","o">>,
      <<"v">>, <<"V","i","e","w">>, <<"x">>, <<"s">> }

\* how a write_file_content call ends on this disk: written, refused before
\* the file is opened, or failed after open(..., 'w') has truncated the file
WriteOutcomes == {"ok", "refused", "truncated"}

(***************************************************************************)
(* call_gemini.py                                                          *)
(***************************************************************************)
\* Faulty variant: the candidate's text is dropped for the sentinel
call_gemini_drops_text(outcome) ==
    IF outcome \in {"text", "empty"}
    THEN [raised |-> FALSE, text |-> "No response generated from Gemini API"]
    ELSE [raised |-> TRUE, text |-> "Gemini API call failed"]

\* GeminiAPIProxy.call_gemini: [raised, text].  generate_content raising, and
\* parts[0] of an empty list raising IndexError, both reach `except Exception`
\* and leave as RuntimeError.
call_gemini(outcome) ==
    CASE outcome = "text"  -> [raised |-> FALSE, text |-> RemoteText]
      [] outcome = "empty" -> [raised |-> FALSE,
                               text |-> "No response generated from Gemini API"]
      [] OTHER             -> [raised |-> TRUE, text |-> "Gemini API call failed"]

(***************************************************************************)
(* nodes.py: the seven task handlers                                       *)
(***************************************************************************)
no_content_notice ==
    << <<"doc",       "No content provided for documentation generation.">>
    ,  <<"summarize", "No content provided for summarization.">>
    ,  <<"test",      "No content provided for test generation.">>
    ,  <<"inspect",   "No content provided for bug detection.">>
    ,  <<"refactor",  "No content provided for refactoring.">>
    ,  <<"annotate",  "No content provided for type annotation.">>
    ,  <<"migrate",   "No content provided for migration.">>
    >>

\* Faulty variant: plain text counts as typed
type_systems_with_text ==
    {"python", "typescript", "java", "cpp", "c", "csharp", "go", "rust", "php",
     "javascript", "text"}

\* the keys of TypeAnnotationAgentNode.process's type_systems
type_systems == {"python", "typescript", "java", "cpp", "c", "csharp", "go",
                 "rust", "php", "javascript"}

\* file_type = get_file_type(path) if path else "text"
agent_file_type(p) == IF TruthyPath(p) THEN nodes_get_file_type(p[1]) ELSE "text"

\* <Agent>.process up to its call of the remote service: the notice it
\* returns without calling, or <<>> when it goes on to call
agent_notice(cmd, content, p, tgt) ==
    IF ~Truthy(content)
    THEN <<Lookup(no_content_notice, cmd, "")>>
    ELSE IF cmd = "annotate" /\ agent_file_type(p) \notin type_systems
    THEN <<"Type annotations are not typically applicable">>
    ELSE IF cmd = "migrate" /\ ~TruthyText(tgt)
    THEN <<"No migration target specified.">>
    ELSE <<>>

(***************************************************************************)
(* nodes.py: OrchestratorNode.parse_intent, the Intent Resolver            *)
(***************************************************************************)
Min(S) == CHOOSE i \in S : \A j \in S : i <= j
Max(S) == CHOOSE i \in S : \A j \in S : j <= i

\* `sub in text`
Contains(text, sub) ==
    \E i \in 1..(Len(text) - Len(sub) + 1) : SubSeq(text, i, i + Len(sub) - 1) = sub

\* commands = ["doc", ...]: each key with its characters, in the list's order
intent_commands ==
    << <<"doc", <<"d","o","c">>>>
    ,  <<"summarize", <<"s","u","m","m","a","r","i","z","e">>>>
    ,  <<"test", <<"t","e","s","t">>>>
    ,  <<"inspect", <<"i","n","s","p","e","c","t">>>>
    ,  <<"refactor", <<"r","e","f","a","c","t","o","r">>>>
    ,  <<"annotate", <<"a","n","n","o","t","a","t","e">>>>
    ,  <<"migrate", <<"m","i","g","r","a","t","e">>>>
    >>

\* Faulty variant: the keyword that stands first in the text is taken
detect_command_by_position(text) ==
    LET at(k) == {i \in 1..Len(text) :
                    /\ i + Len(intent_commands[k][2]) - 1 <= Len(text)
                    /\ SubSeq(Lower(text), i, i + Len(intent_commands[k][2]) - 1)
                         = intent_commands[k][2]}
        found == {k \in 1..Len(intent_commands) : at(k) # {}}
    IN  IF found = {} THEN <<>>
        ELSE LET first == Min(UNION {at(k) : k \in found})
             IN  <<intent_commands[Min({k \in found : first \in at(k)})][1]>>

\* `for cmd in commands: if cmd in user_input.lower(): ...; break`
detect_command(text) ==
    LET found == {k \in 1..Len(intent_commands) :
                    Contains(Lower(text), intent_commands[k][2])}
    IN  IF found = {} THEN <<>> ELSE <<intent_commands[Min(found)][1]>>

\* the alternatives of the extensions pattern, in its order
path_extensions ==
    << <<"p","y">>, <<"j","s">>, <<"t","s">>
    ,  <<"j","a","v","a">>, <<"c","p","p">>, <<"c">>
    ,  <<"c","s">>, <<"p","h","p">>, <<"r","b">>
    ,  <<"g","o">>, <<"r","s">>, <<"s","w","i","f","t">>
    ,  <<"k","t">>, <<"s","c","a","l","a">>, <<"h","t","m","l">>
    ,  <<"c","s","s">>, <<"s","q","l">>, <<"j","s","o","n">>
    ,  <<"x","m","l">>, <<"y","a","m","l">>, <<"y","m","l">>
    ,  <<"m","d">>, <<"t","x","t">>, <<"s","h">>
    ,  <<"b","a","t">>, <<"p","s","1">>
    >>

\* the first alternative that matches at position i, letter case ignored
ExtensionAt(text, i) ==
    LET ok == {k \in 1..Len(path_extensions) :
                 /\ i + Len(path_extensions[k]) - 1 <= Len(text)
                 /\ Lower(SubSeq(text, i, i + Len(path_extensions[k]) - 1))
                      = path_extensions[k]}
    IN  IF ok = {} THEN <<>> ELSE <<path_extensions[Min(ok)]>>

\* the match of (\S+\.(py|js|...)) that starts at s: \S+ takes as much as it
\* can and gives back until a dot and an alternative follow; the match ends
\* with the alternative
PathMatchFrom(text, s) ==
    LET ks == {k \in s..(Len(text) - 1) :
                 /\ \A j \in s..k : text[j] \notin Whitespace
                 /\ text[k + 1] = "."
                 /\ ExtensionAt(text, k + 2) # <<>>}
    IN  IF ks = {} THEN <<>>
        ELSE <<SubSeq(text, s, Max(ks) + 1 + Len(ExtensionAt(text, Max(ks) + 2)[1]))>>

\* re.search(...).group(1): the leftmost match, or none
path_match(text) ==
    LET ss == {s \in 1..Len(text) : PathMatchFrom(text, s) # <<>>}
    IN  IF ss = {} THEN <<>> ELSE PathMatchFrom(text, Min(ss))

in_place_text == <<"i","n","-","p","l","a","c","e">>
new_file_text == <<"n","e","w","-","f","i","l","e">>
secure_text   == <<"s","e","c","u","r","e">>
confirm_text  == <<"c","o","n","f","i","r","m">>
target_flag   == <<"-","-","t","a","r","g","e","t">>
Quotes == {"\"", "'"}

\* Faulty variant: "new-file" is looked for first
detect_output_mode_new_file_first(text) ==
    IF Contains(Lower(text), new_file_text) THEN <<"new-file">>
    ELSE IF Contains(Lower(text), in_place_text) THEN <<"in-place">>
    ELSE <<>>

\* `if "in-place" in ...: elif "new-file" in ...:`
detect_output_mode(text) ==
    IF Contains(Lower(text), in_place_text) THEN <<"in-place">>
    ELSE IF Contains(Lower(text), new_file_text) THEN <<"new-file">>
    ELSE <<>>

\* `if "secure" in ... or "confirm" in ...: intent["secure"] = True`
detect_secure(text) ==
    IF Contains(Lower(text), secure_text) \/ Contains(Lower(text), confirm_text)
    THEN <<TRUE>> ELSE <<>>

\* the characters from s on up to the next quote
NonQuoteRun(text, s) ==
    Max({n \in 0..(Len(text) - s + 1) : \A j \in s..(s + n - 1) : text[j] \notin Quotes})

\* the match of --target\s+["']?([^"']+)["']? that starts at i: group 1.
\* \s+ takes all the white space, then one quote if the group can start
\* behind it; \s+ gives one character back when the group cannot start
TargetMatchFrom(text, i) ==
    LET j == i + Len(target_flag)
        W == Max({n \in 0..(Len(text) - j + 1) :
                    \A k \in j..(j + n - 1) : text[k] \in Whitespace})
        start(w) == IF /\ j + w <= Len(text) /\ text[j + w] \in Quotes
                       /\ NonQuoteRun(text, j + w + 1) >= 1
                    THEN j + w + 1 ELSE j + w
        ws == {w \in 1..W : NonQuoteRun(text, start(w)) >= 1}
    IN  IF SubSeq(text, i, j - 1) # target_flag \/ ws = {} THEN <<>>
        ELSE <<SubSeq(text, start(Max(ws)),
                      start(Max(ws)) + NonQuoteRun(text, start(Max(ws))) - 1)>>

\* re.search(...).group(1): the leftmost match, or none
target_match(text) ==
    LET is == {i \in 1..(Len(text) - Len(target_flag) + 1) :
                 TargetMatchFrom(text, i) # <<>>}
    IN  IF is = {} THEN <<>> ELSE TargetMatchFrom(text, Min(is))

\* the dict parse_intent returns, an absent key as <<>>
parse_intent(text) ==
    [ command     |-> detect_command(text),
      path        |-> path_match(text),
      output_mode |-> detect_output_mode(text),
      secure      |-> detect_secure(text),
      target      |-> IF detect_command(text) = <<"migrate">>
                      THEN target_match(text) ELSE <<>> ]

NoIntent == [command |-> <<>>, path |-> <<>>, output_mode |-> <<>>,
             secure |-> <<>>, target |-> <<>>]

\* intent.get(key, default)
Get(opt, default) == IF opt = <<>> THEN default ELSE opt[1]

\* the names between the slashes of a path given as text, "" and "." dropped
RECURSIVE PathParts(_)
PathParts(text) ==
    LET slashes == {i \in 1..Len(text) : text[i] = "/"}
        head == IF slashes = {} THEN text ELSE SubSeq(text, 1, Min(slashes) - 1)
        rest == IF slashes = {} THEN <<>>
                ELSE PathParts(SubSeq(text, Min(slashes) + 1, Len(text)))
    IN  IF text = <<>> THEN <<>>
        ELSE IF head = <<>> \/ head = <<".">> THEN rest
        ELSE <<head>> \o rest

\* the file a path given as text names
PathOf(text) ==
    LET parts == PathParts(text)
    IN  IF parts = <<>> THEN [dir |-> <<>>, name |-> <<>>]
        ELSE [dir |-> SubSeq(parts, 1, Len(parts) - 1), name |-> parts[Len(parts)]]

(***************************************************************************)
(* The state                                                               *)
(***************************************************************************)
VARIABLES
    command, path, output_mode, secure, target,   \* process_command's arguments
    pc,            \* where process_command is: idle, read, route, gate, output, done, interrupted
    file_content,  \* Optional[str]
    result,        \* the text _route_command returned
    ret,           \* what process_command returned
    fs, dirs,      \* the files (path -> content) and the directories on disk
    fs0, dirs0,    \* the disk when the request began
    gate,          \* the Approval Gate: none, prompting, approved, rejected
    stdin,         \* the line typed and not yet read
    responses,     \* the lines approve_changes has read, in order
    hints, views,  \* usage hints and full-content prints by approve_changes
    remoteCalls,   \* generate_content calls made
    remoteLog,     \* how each of them ended, in order
    steps,         \* the steps process_command has taken
    credential,    \* GEMINI_API_KEY in the environment: Optional[str]
    client,        \* FlowOrchestrator() and its remote clients: none, ready,
                   \* config_error, init_error
    user_input,    \* process_chat_input's argument
    intent,        \* what parse_intent returned
    chat,          \* where process_chat_input is: idle, parse, dispatch,
                   \* command, general, returned
    chatRet,       \* what process_chat_input returned
    argv,          \* the command line
    mainPc,        \* where main is: off, start, key, validate, construct,
                   \* call, command, prompt, request, exited
    exitStatus,    \* the process's exit status, once it has exited
    printed,       \* the results main and handle_chat_mode printed
    linesRead      \* the lines handle_chat_mode has read

procVars == <<command, path, output_mode, secure, target, pc, file_content, result,
              ret, fs, dirs, fs0, dirs0, gate, stdin, responses, hints, views,
              remoteCalls, remoteLog, steps>>

chatVars == <<user_input, intent, chat, chatRet>>
mainVars == <<argv, mainPc, exitStatus, printed, linesRead>>
cliVars == <<credential, client, chatVars, mainVars>>

vars == <<command, path, output_mode, secure, target, pc, file_content, result,
          ret, fs, dirs, fs0, dirs0, gate, stdin, responses, hints, views,
          remoteCalls, remoteLog, steps, credential, client, user_input, intent,
          chat, chatRet, argv, mainPc, exitStatus, printed, linesRead>>

args == <<command, path, output_mode, secure, target>>
disk == <<fs, dirs>>
gateVars == <<gate, stdin, responses, hints, views>>

NoRet == [kind |-> "none", text |-> "", path |-> <<>>]
\* process_command's return values
TextRet(t)  == [kind |-> "text", text |-> t, path |-> <<>>]
Applied(p)  == [kind |-> "applied", text |-> "Changes applied to", path |-> <<p>>]
Saved(p)    == [kind |-> "saved", text |-> "Output saved to", path |-> <<p>>]
Unsupported == [kind |-> "unsupported",
                text |-> "In-place output not supported for this command. Use console or new-file.",
                path |-> <<>>]
Cancelled   == [kind |-> "cancelled", text |-> "Operation cancelled by user.", path |-> <<>>]
\* error_handler.handle_error(e, command, path): the report of exception e
ErrorRet(e) == [kind |-> "error", text |-> e, path |-> <<>>]

\* os.getenv("GEMINI_API_KEY"): unset, empty, or a key
Credentials == {<<>>, <<"">>, <<"AIza-key">>}

\* main's args: the subcommand, the path as a file, --output, --secure, --target
Args(cmd, p, m, s, t) ==
    [command |-> cmd, path |-> p, output |-> m, secure |-> s, target |-> t]

NoArgs == Args("", <<>>, "console", FALSE, <<>>)

\* every variable but main's place
InitState ==
    /\ command = "doc" /\ path = <<>> /\ output_mode = "console"
    /\ secure = FALSE /\ target = <<>>
    /\ pc = "idle"
    /\ file_content = <<>> /\ result = "" /\ ret = NoRet
    /\ fs = InitialFiles /\ dirs = InitialDirs
    /\ fs0 = InitialFiles /\ dirs0 = InitialDirs
    /\ gate = "none" /\ stdin = <<>> /\ responses = <<>>
    /\ hints = 0 /\ views = 0
    /\ remoteCalls = 0 /\ remoteLog = <<>> /\ steps = <<>>
    /\ credential \in Credentials /\ client = "none"
    /\ user_input = <<>> /\ intent = NoIntent /\ chat = "idle" /\ chatRet = NoRet
    /\ argv = NoArgs /\ exitStatus = <<>> /\ printed = <<>> /\ linesRead = 0

\* the state before a caller constructs FlowOrchestrator, main not running
Init ==
    /\ InitState
    /\ mainPc = "off"

\* the state when `breeze ...` starts
MainInit ==
    /\ InitState
    /\ mainPc = "start"

(***************************************************************************)
(* utils.py: reading and writing files                                     *)
(***************************************************************************)
\* the directory d is taken by a regular file of that name
IsFileAt(f, d) == d # <<>> /\ File(SubSeq(d, 1, Len(d) - 1), d[Len(d)]) \in DOMAIN f

PutFile(f, p, content) == [q \in DOMAIN f \cup {p} |-> IF q = p THEN content ELSE f[q]]

\* Faulty variant: the file is opened for reading: nothing is written, nothing raised
write_file_content_not_written(f, ds, p, content, w) ==
    [fs |-> f, dirs |-> ds \cup Ancestors(p.dir), raised |-> FALSE]

\* utils.write_file_content on disk <<f, ds>>, the disk answering w:
\* parent.mkdir(parents=True, exist_ok=True), open(..., 'w'), write.
write_file_content(f, ds, p, content, w) ==
    IF (\E d \in Ancestors(p.dir) : IsFileAt(f, d)) \/ w = "refused"
    THEN [fs |-> f, dirs |-> ds, raised |-> TRUE]
    ELSE IF w = "truncated"
    THEN [fs |-> PutFile(f, p, ""), dirs |-> ds \cup Ancestors(p.dir), raised |-> TRUE]
    ELSE [fs |-> PutFile(f, p, content), dirs |-> ds \cup Ancestors(p.dir), raised |-> FALSE]

\* utils.get_output_filename's effect on the disk: for test it makes the
\* tests directory, test_dir.mkdir(exist_ok=True), which raises when a
\* regular file has that name
output_filename_mkdir(f, ds, p, cmd) ==
    IF cmd # "test"
    THEN [dirs |-> ds, raised |-> FALSE]
    ELSE IF IsFileAt(f, p.dir \o <<tests_name>>) \/ p.dir \notin ds
    THEN [dirs |-> ds, raised |-> TRUE]
    ELSE [dirs |-> ds \cup {p.dir \o <<tests_name>>}, raised |-> FALSE]

(***************************************************************************)
(* flow.py: FlowOrchestrator                                               *)
(***************************************************************************)
\* the commands process_command asks approval for
approval_commands == {"refactor", "annotate", "migrate"}

\* Faulty variant: the secure flag is not looked at
needs_approval_without_secure(sec, cmd) == cmd \in approval_commands

\* `if secure and command in [...]`
needs_approval(sec, cmd) == sec /\ cmd \in approval_commands

\* Faulty variant: every command is written in place
in_place_commands_all == Commands

\* the commands _handle_output writes in place for
in_place_commands == {"doc", "refactor", "annotate", "migrate"}

\* Faulty variant: approve_changes is given the request's path, and with it
\* the answers d/diff and s/save
approval_file_path_given(p) == p

\* the file_path argument process_command gives approve_changes: none
approval_file_path(p) == <<>>

\* Faulty variant: the path decides first: a request with a path and no in-place
\* mode is saved to a new file
output_branch_path_first(mode, p) ==
    IF mode = "in-place" /\ TruthyPath(p) THEN "in-place"
    ELSE IF TruthyPath(p) THEN "new-file"
    ELSE "console"

\* the branch of _handle_output's if/elif chain taken
output_branch(mode, p) ==
    IF mode = "console" THEN "console"
    ELSE IF mode = "in-place" /\ TruthyPath(p) THEN "in-place"
    ELSE IF mode = "new-file" /\ TruthyPath(p) THEN "new-file"
    ELSE "else"

\* FlowOrchestrator._handle_output: what it returns or raises, and the disk after
handle_output(res, p, mode, cmd, f, ds, w) ==
    IF output_branch(mode, p) = "console"
    THEN [ret |-> TextRet(res), fs |-> f, dirs |-> ds]
    ELSE IF output_branch(mode, p) = "in-place"
    THEN IF cmd \in in_place_commands
         THEN LET wr == write_file_content(f, ds, p[1], res, w)
              IN  [ret  |-> IF wr.raised THEN ErrorRet("Failed to write file")
                            ELSE Applied(p[1]),
                   fs |-> wr.fs, dirs |-> wr.dirs]
         ELSE [ret |-> Unsupported, fs |-> f, dirs |-> ds]
    ELSE IF output_branch(mode, p) = "new-file"
    THEN LET output_path == get_output_filename(p[1], cmd)
             mk == output_filename_mkdir(f, ds, p[1], cmd)
             wr == write_file_content(f, mk.dirs, output_path, res, w)
         IN  IF mk.raised
             THEN [ret |-> ErrorRet("FileExistsError"), fs |-> f, dirs |-> mk.dirs]
             ELSE [ret  |-> IF wr.raised THEN ErrorRet("Failed to write file")
                            ELSE Saved(output_path),
                   fs |-> wr.fs, dirs |-> wr.dirs]
    ELSE [ret |-> TextRet(res), fs |-> f, dirs |-> ds]

\* Faulty variant: without the except clause the exception leaves process_command
Fail_propagates(e) ==
    /\ pc' = "interrupted"
    /\ UNCHANGED ret

\* process_command's `except Exception`: the error report is returned
Fail(e) ==
    /\ pc' = "done"
    /\ ret' = ErrorRet(e)

\* how configuring the client library ends (genai missing, configure raising)
ConstructOutcomes == {"ok", "raise"}

\* FlowOrchestrator(): each agent node makes its GeminiAPIProxy, whose __init__
\* raises ValueError when GEMINI_API_KEY is not set
construct(cred, outcome) ==
    IF ~Truthy(cred) THEN "config_error"
    ELSE IF outcome = "raise" THEN "init_error"
    ELSE "ready"

\* A caller constructs the orchestrator.
Construct(outcome) ==
    /\ mainPc = "off"
    /\ client = "none"
    /\ client' = construct(credential, outcome)
    /\ UNCHANGED <<procVars, credential, chatVars, mainVars>>

\* A caller calls process_command(cmd, p, m, s, t).  Only migrate is given a
\* target (main.py's other subcommands have none, parse_intent sets none).
Call(cmd, p, m, s, t) ==
    /\ client = "ready"
    /\ pc = "idle"
    /\ cmd # "migrate" => t = <<>>
    /\ command' = cmd /\ path' = p /\ output_mode' = m
    /\ secure' = s /\ target' = t
    /\ pc' = "read"
    /\ fs0' = fs /\ dirs0' = dirs
    /\ UNCHANGED <<file_content, result, ret, fs, dirs, gateVars, remoteCalls, remoteLog, steps>>

\* `if path: file_content = read_file_content(path)`
ReadFile ==
    /\ pc = "read"
    /\ IF ~TruthyPath(path)
       THEN /\ pc' = "route"
            /\ UNCHANGED <<file_content, ret, steps>>
       ELSE /\ steps' = Append(steps, "read")
            /\ IF path[1] \in DOMAIN fs /\ fs[path[1]] # Undecodable
               THEN /\ file_content' = <<fs[path[1]]>>
                    /\ pc' = "route"
                    /\ UNCHANGED ret
               ELSE /\ Fail("Failed to read file")
                    /\ UNCHANGED file_content
    /\ UNCHANGED <<args, result, disk, fs0, dirs0, gateVars, remoteCalls, remoteLog>>

\* Faulty variant: an unknown key falls back to the first handler
agents_get_with_default(cmd) == IF cmd \in Commands THEN <<cmd>> ELSE <<"doc">>

\* agents.get(command): the handler's key, or none
agents_get(cmd) == IF cmd \in Commands THEN <<cmd>> ELSE <<>>

\* after _route_command returned: the approval prompt, or the output
AfterRoute(taken) ==
    IF needs_approval(secure, command)
    THEN /\ pc' = "gate"
         /\ gate' = "prompting"
         /\ steps' = steps \o taken \o <<"gate">>
    ELSE /\ pc' = "output"
         /\ steps' = steps \o taken
         /\ UNCHANGED gate

\* _route_command: the dispatch table, the handler's process and, when the
\* handler calls the remote service, the call, which ends as `outcome`
RouteCommand(outcome) ==
    /\ pc = "route"
    /\ IF agents_get(command) = <<>>
       THEN /\ Fail("Unknown command")
            /\ steps' = Append(steps, "route")
            /\ UNCHANGED <<result, remoteCalls, remoteLog, gate>>
       ELSE LET notice == agent_notice(agents_get(command)[1], file_content, path, target)
                r == call_gemini(outcome)
            IN  IF notice # <<>>
                THEN /\ result' = notice[1]
                     /\ AfterRoute(<<"route">>)
                     /\ UNCHANGED <<ret, remoteCalls, remoteLog>>
                ELSE /\ remoteCalls' = remoteCalls + 1
                     /\ remoteLog' = Append(remoteLog, outcome)
                     /\ IF r.raised
                        THEN /\ Fail(r.text)
                             /\ steps' = steps \o <<"route", "remote">>
                             /\ UNCHANGED <<result, gate>>
                        ELSE /\ result' = r.text
                             /\ AfterRoute(<<"route", "remote">>)
                             /\ UNCHANGED ret
    /\ UNCHANGED <<args, file_content, disk, fs0, dirs0, stdin, responses, hints, views>>

(***************************************************************************)
(* nodes.py: SafetyCheckNode.approve_changes, the Approval Gate            *)
(***************************************************************************)
\* the answers the loop tells apart
Yes  == {<<"y">>, <<"y","e","s">>}
No   == {<<"n">>, <<"n","o">>}
View == {<<"v">>, <<"v","i","e","w">>}
Diff == {<<"d">>, <<"d","i","f","f">>}
Save == {<<"s">>, <<"s","a","v","e">>}

\* Faulty variant: the answer is trimmed and not lower-cased
read_response_not_lowered(line) == Strip(line)

\* response = input(...).lower().strip()
read_response(line) == Strip(Lower(line))

\* Faulty variant: without the branch for v/view
approve_branch_without_view(response, file_path) ==
    CASE response \in Yes  -> "approve"
      [] response \in No   -> "reject"
      [] response \in Diff /\ TruthyPath(file_path) -> "diff"
      [] response \in Save /\ TruthyPath(file_path) -> "save"
      [] OTHER -> "hint"

\* the branch of the while-loop's if/elif chain taken for `response`
approve_branch(response, file_path) ==
    CASE response \in Yes  -> "approve"
      [] response \in No   -> "reject"
      [] response \in View -> "view"
      [] response \in Diff /\ TruthyPath(file_path) -> "diff"
      [] response \in Save /\ TruthyPath(file_path) -> "save"
      [] OTHER -> "hint"

\* _save_preview: preview_path = f"{file_path}.preview"
preview_path(p) == File(p.dir, p.name \o <<".","p","r","e","v","i","e","w">>)

\* The user, asked "Apply these changes?", types a line.
UserTypes(line) ==
    /\ pc = "gate" /\ gate = "prompting"
    /\ stdin = <<>>
    /\ Len(responses) < MaxInputs
    /\ stdin' = <<line>>
    /\ UNCHANGED <<args, pc, file_content, result, ret, disk, fs0, dirs0, gate,
                   responses, hints, views, remoteCalls, remoteLog, steps>>

\* One turn of approve_changes' loop on the line typed.  'y' returns True and
\* process_command goes on to the output; 'n' returns False and
\* process_command returns the cancellation message.
GateRead ==
    /\ pc = "gate" /\ gate = "prompting"
    /\ stdin # <<>>
    /\ LET file_path == approval_file_path(path)
           branch == approve_branch(read_response(stdin[1]), file_path)
       IN  /\ stdin' = <<>>
           /\ responses' = Append(responses, stdin[1])
           /\ gate' = CASE branch = "approve" -> "approved"
                        [] branch = "reject"  -> "rejected"
                        [] OTHER              -> "prompting"
           /\ pc' = CASE branch = "approve" -> "output"
                      [] branch = "reject"  -> "done"
                      [] OTHER              -> "gate"
           /\ ret' = IF branch = "reject" THEN Cancelled ELSE ret
           /\ views' = IF branch = "view" THEN views + 1 ELSE views
           /\ hints' = IF branch = "hint" THEN hints + 1 ELSE hints
           /\ fs' = IF branch = "save"
                    THEN PutFile(fs, preview_path(file_path[1]), result)
                    ELSE fs
    /\ UNCHANGED <<args, file_content, result, dirs, fs0, dirs0, remoteCalls, remoteLog, steps>>

\* The input stream ends at the prompt: input() raises EOFError, which
\* process_command's `except Exception` turns into an error report.
GateEOF ==
    /\ pc = "gate" /\ gate = "prompting"
    /\ stdin = <<>>
    /\ Fail("EOFError")
    /\ UNCHANGED <<args, file_content, result, disk, fs0, dirs0, gateVars,
                   remoteCalls, remoteLog, steps>>

\* Faulty variant: the interrupt takes the disk back to what it was when the
\* session began
GateInterrupt_rolls_back ==
    /\ pc = "gate" /\ gate = "prompting"
    /\ stdin = <<>>
    /\ pc' = "interrupted"
    /\ fs' = InitialFiles /\ dirs' = InitialDirs
    /\ UNCHANGED <<args, file_content, result, ret, fs0, dirs0, gateVars,
                   remoteCalls, remoteLog, steps>>

\* The user interrupts at the prompt: KeyboardInterrupt is no Exception and
\* leaves process_command without a return value.
GateInterrupt ==
    /\ pc = "gate" /\ gate = "prompting"
    /\ stdin = <<>>
    /\ pc' = "interrupted"
    /\ UNCHANGED <<args, file_content, result, ret, disk, fs0, dirs0, gateVars,
                   remoteCalls, remoteLog, steps>>

\* `return self._handle_output(result, path, output_mode, command, verbose)`,
\* a failure of which is reported by `except Exception`
HandleOutput(w) ==
    /\ pc = "output"
    /\ LET out == handle_output(result, path, output_mode, command, fs, dirs, w)
       IN  /\ ret' = out.ret
           /\ fs' = out.fs
           /\ dirs' = out.dirs
    /\ pc' = "done"
    /\ steps' = Append(steps, "output")
    /\ UNCHANGED <<args, file_content, result, fs0, dirs0, gateVars, remoteCalls, remoteLog>>

\* A caller constructs the orchestrator and calls process_command.
Next ==
    \/ \E o \in ConstructOutcomes : Construct(o)
    \/ /\ UNCHANGED cliVars
       /\ \/ \E cmd \in CommandKeys, p \in {<<>>} \cup {<<q>> : q \in SourcePaths},
                m \in OutputModes, s \in BOOLEAN, t \in Targets : Call(cmd, p, m, s, t)
          \/ ReadFile
          \/ \E outcome \in RemoteOutcomes : RouteCommand(outcome)
          \/ \E line \in RawResponses : UserTypes(line)
          \/ GateRead
          \/ GateEOF
          \/ GateInterrupt
          \/ \E w \in WriteOutcomes : HandleOutput(w)

Spec == Init /\ [][Next]_vars

\* The requests that come to the Approval Gate, on one file and in the mode
\* that overwrites it: approve_changes is given the result text alone.
GateNext ==
    \/ \E o \in ConstructOutcomes : Construct(o)
    \/ /\ UNCHANGED cliVars
       /\ \/ \E cmd \in approval_commands, t \in {<<>>, <<Python_3_12>>} :
                Call(cmd, <<a_py>>, "in-place", TRUE, t)
          \/ ReadFile
          \/ \E outcome \in RemoteOutcomes : RouteCommand(outcome)
          \/ \E line \in RawResponses : UserTypes(line)
          \/ GateRead
          \/ GateEOF
          \/ GateInterrupt
          \/ \E w \in WriteOutcomes : HandleOutput(w)

\* approve_changes' loop runs on once a line is there to read
GateSpec == Init /\ [][GateNext]_vars /\ WF_vars(GateRead /\ UNCHANGED cliVars)

(***************************************************************************)
(* flow.py: FlowOrchestrator.process_chat_input                            *)
(***************************************************************************)
\* process_command's variables but the count of remote calls
procLocals == <<args, pc, file_content, result, ret, disk, fs0, dirs0, gateVars, steps>>

\* A caller calls process_chat_input(text).
CallChat(text) ==
    /\ mainPc = "off"
    /\ client = "ready"
    /\ chat = "idle" /\ pc = "idle"
    /\ user_input' = text
    /\ chat' = "parse"
    /\ UNCHANGED <<procVars, credential, client, intent, chatRet, mainVars>>

\* `intent = self.orchestrator.parse_intent(user_input, verbose)`: the remote
\* call parse_intent opens with, then its matching of the text; what the call
\* raises is reported by process_chat_input's `except Exception`
ParseIntent(outcome) ==
    /\ chat = "parse"
    /\ remoteCalls' = remoteCalls + 1
    /\ remoteLog' = Append(remoteLog, outcome)
    /\ IF call_gemini(outcome).raised
       THEN /\ chat' = "returned"
            /\ chatRet' = ErrorRet(call_gemini(outcome).text)
            /\ UNCHANGED intent
       ELSE /\ intent' = parse_intent(user_input)
            /\ chat' = "dispatch"
            /\ UNCHANGED chatRet
    /\ UNCHANGED <<procLocals, credential, client, user_input, mainVars>>

\* Faulty variant: a text with no command is handed to process_command
chat_route_always_command(i) == "command"

\* `if intent.get("command"): ... else: ...`
chat_route(i) == IF i.command # <<>> THEN "command" ELSE "general"

\* the path parse_intent found, as the file it names
intent_path(i) == IF i.path = <<>> THEN <<>> ELSE <<PathOf(i.path[1])>>

\* the branch taken: process_command(...) is entered with the intent's fields
\* and the defaults for the absent ones, or the general query is
ChatDispatch ==
    /\ chat = "dispatch"
    /\ IF chat_route(intent) = "command"
       THEN /\ Call(Get(intent.command, "doc"), intent_path(intent),
                    Get(intent.output_mode, "console"), Get(intent.secure, FALSE),
                    intent.target)
            /\ chat' = "command"
       ELSE /\ chat' = "general"
            /\ UNCHANGED procVars
    /\ UNCHANGED <<credential, client, user_input, intent, chatRet, mainVars>>

\* `return self.orchestrator.handle_general_query(user_input, verbose)`
GeneralQuery(outcome) ==
    /\ chat = "general"
    /\ remoteCalls' = remoteCalls + 1
    /\ remoteLog' = Append(remoteLog, outcome)
    /\ chat' = "returned"
    /\ chatRet' = IF call_gemini(outcome).raised
                  THEN ErrorRet(call_gemini(outcome).text)
                  ELSE TextRet(call_gemini(outcome).text)
    /\ UNCHANGED <<procLocals, credential, client, user_input, intent, mainVars>>

\* `return self.process_command(...)`: what process_command returned
ChatReturn ==
    /\ chat = "command" /\ pc = "done"
    /\ chat' = "returned"
    /\ chatRet' = ret
    /\ UNCHANGED <<procVars, credential, client, user_input, intent, mainVars>>

\* KeyboardInterrupt from the approval prompt passes `except Exception`
ChatInterrupted ==
    /\ chat = "command" /\ pc = "interrupted"
    /\ chat' = "interrupted"
    /\ UNCHANGED <<procVars, credential, client, user_input, intent, chatRet, mainVars>>

\* the steps of process_command
ProcessStep(lines) ==
    /\ UNCHANGED cliVars
    /\ \/ ReadFile
       \/ \E outcome \in RemoteOutcomes : RouteCommand(outcome)
       \/ \E line \in lines : UserTypes(line)
       \/ GateRead
       \/ GateEOF
       \/ GateInterrupt
       \/ \E w \in WriteOutcomes : HandleOutput(w)

\* the steps of process_chat_input
ChatStep ==
    \/ \E outcome \in RemoteOutcomes : ParseIntent(outcome)
    \/ ChatDispatch
    \/ \E outcome \in RemoteOutcomes : GeneralQuery(outcome)
    \/ ChatReturn
    \/ ChatInterrupted

\* the lines typed at the chat prompt, and the texts process_chat_input is given
ChatLines ==
    { <<"e","x","i","t">>
    , <<" ","Q","U","I","T"," ">>
    , <<"H","e","l","p">>
    , <<>>
    , <<"h","e","l","l","o">>
    , <<"s","u","m","m","a","r","i","z","e"," ","a",".","p","y">>
    , <<"d","o","c"," ","a",".","p","y"," ","i","n","-","p","l","a","c","e">>
    , <<"a","n","n","o","t","a","t","e"," ","a",".","p","y"," ","i","n","-","p","l","a","c","e"," ","c","o","n","f","i","r","m">>
    , <<"t","e","s","t"," ","m",".","p","y">>
    , <<"m","i","g","r","a","t","e"," ","a",".","p","y"," ","n","e","w","-","f","i","l","e">>
    }

\* the answers typed at the approval prompt in a chat or command-line session
SessionResponses == { <<"y">>, <<"N","o">>, <<"x">> }

\* A caller constructs the orchestrator and calls process_command or
\* process_chat_input.
ChatNext ==
    \/ \E o \in ConstructOutcomes : Construct(o)
    \/ /\ chat = "idle"
       /\ UNCHANGED cliVars
       /\ \E cmd \in CommandKeys, p \in {<<>>, <<a_py>>, <<m_py>>}, m \in OutputModes,
             s \in BOOLEAN, t \in {<<>>, <<Python_3_12>>} : Call(cmd, p, m, s, t)
    \/ \E text \in ChatLines : CallChat(text)
    \/ ChatStep
    \/ ProcessStep(SessionResponses)

ChatSpec == Init /\ [][ChatNext]_vars

\* the words of the texts the Intent Resolver is tried on
IntentWords ==
    { <<"d","o","c">>
    , <<"T","e","s","t">>
    , <<"s","u","m","m","a","r","i","z","e">>
    , <<"m","i","g","r","a","t","e">>
    , <<"a",".","p","y">>
    , <<"d","a","t","a",".","j","s","o","n">>
    , <<"x",".","c","s">>
    , <<"t","e","s","t",".","p","y">>
    , <<"w",".","J","S">>
    , <<"i","n","-","p","l","a","c","e">>
    , <<"c","o","n","f","i","r","m">>
    , <<"-","-","t","a","r","g","e","t">>
    , <<"h","e","l","l","o">>
    }

\* the most words in such a text
MaxWords == 2

\* " ".join(ws)
RECURSIVE Join(_)
Join(ws) ==
    IF ws = <<>> THEN <<>>
    ELSE IF Len(ws) = 1 THEN ws[1]
    ELSE ws[1] \o <<" ">> \o Join(Tail(ws))

IntentTexts == {Join(ws) : ws \in UNION {[1..n -> IntentWords] : n \in 1..MaxWords}}

\* A caller constructs the orchestrator and has a text resolved.
IntentNext ==
    \/ \E o \in ConstructOutcomes : Construct(o)
    \/ \E text \in IntentTexts : CallChat(text)
    \/ \E outcome \in RemoteOutcomes : ParseIntent(outcome)

IntentSpec == Init /\ [][IntentNext]_vars

\* the texts process_chat_input is given to have their output mode, approval
\* flag and target resolved
ResolveTexts ==
    { <<"d","o","c"," ","a",".","p","y">>    \* doc a.py
    , <<"d","o","c"," ","a",".","p","y"," ","I","N","-","P","L","A","C","E">>    \* doc a.py IN-PLACE
    , <<"d","o","c"," ","a",".","p","y"," ","n","e","w","-","f","i","l","e"," ","i","n","-","p","l","a","c","e">>    \* doc a.py new-file in-place
    , <<"s","u","m","m","a","r","i","z","e"," ","a",".","p","y"," ","N","e","w","-","F","i","l","e">>    \* summarize a.py New-File
    , <<"r","e","f","a","c","t","o","r"," ","a",".","p","y"," ","i","n","-","p","l","a","c","e"," ","s","e","c","u","r","e">>    \* refactor a.py in-place secure
    , <<"a","n","n","o","t","a","t","e"," ","a",".","p","y"," ","C","o","n","f","i","r","m">>    \* annotate a.py Confirm
    , <<"m","i","g","r","a","t","e"," ","a",".","p","y"," ","-","-","t","a","r","g","e","t"," ","p","y","3">>    \* migrate a.py --target py3
    , <<"m","i","g","r","a","t","e"," ","a",".","p","y"," ","-","-","t","a","r","g","e","t"," ","'","p","y","3","'"," ","i","n","-","p","l","a","c","e">>    \* migrate a.py --target 'py3' in-place
    , <<"m","i","g","r","a","t","e"," ","a",".","p","y"," ","-","-","t","a","r","g","e","t">>    \* migrate a.py --target
    , <<"d","o","c"," ","a",".","p","y"," ","-","-","t","a","r","g","e","t"," ","p","y","3">>    \* doc a.py --target py3
    , <<"m","i","g","r","a","t","e"," ","a",".","p","y"," ","-","-","T","A","R","G","E","T"," ","p","y","3">>    \* migrate a.py --TARGET py3
    , <<"m","i","g","r","a","t","e"," ","a",".","p","y"," ","n","e","w","-","f","i","l","e"," ","-","-","t","a","r","g","e","t"," ","p","y","3"," ","c","o","n","f","i","r","m">>    \* migrate a.py new-file --target py3 confirm
    , <<"h","e","l","l","o">>    \* hello
    }

\* A caller constructs the orchestrator and calls process_chat_input.
ResolveNext ==
    \/ \E o \in ConstructOutcomes : Construct(o)
    \/ \E text \in ResolveTexts : CallChat(text)
    \/ ChatStep
    \/ ProcessStep(SessionResponses)

ResolveSpec == Init /\ [][ResolveNext]_vars

(***************************************************************************)
(* main.py: main and handle_chat_mode                                      *)
(***************************************************************************)
\* the most lines read at the chat prompt
MaxRequests == 2

\* main has ended with this exit status
Exit(status) ==
    /\ mainPc' = "exited"
    /\ exitStatus' = <<status>>

\* the command lines: no argument at all, chat, or a subcommand with a path
CommandLines ==
    {NoArgs, Args("chat", <<>>, "console", FALSE, <<>>)}
        \cup {Args(cmd, <<p>>, m, sec, t) :
                cmd \in CommandKeys, p \in {a_py, w_JS, m_py, u_py, d_dir},
                m \in OutputModes, sec \in BOOLEAN, t \in Targets}

\* what create_parser's parser makes of the command line: "help" when there is
\* no argument, "error" (exit status 2) for an unknown subcommand, for migrate
\* without --target and for --target on another subcommand
parse_args(a) ==
    IF a = NoArgs THEN "help"
    ELSE IF a.command \notin Commands \cup {"chat"} THEN "error"
    ELSE IF a.command = "migrate" /\ a.target = <<>> THEN "error"
    ELSE IF a.command # "migrate" /\ a.target # <<>> THEN "error"
    ELSE "ok"

\* `breeze ...` is started: main up to `args = parser.parse_args()`
ParseArgs(a) ==
    /\ mainPc = "start"
    /\ argv' = a
    /\ CASE parse_args(a) = "help"  -> Exit(0)
         [] parse_args(a) = "error" -> Exit(2)
         [] OTHER -> mainPc' = "key" /\ UNCHANGED exitStatus
    /\ UNCHANGED <<procVars, credential, client, chatVars, printed, linesRead>>

\* Faulty variant: the key is not looked at
key_missing_never(cred) == FALSE

\* `api_key = get_api_key(); if not api_key:`
key_missing(cred) == ~Truthy(cred)

\* the check for the API key: sys.exit(1) without one, else on to chat mode
\* or to the checks of the path
CheckKey ==
    /\ mainPc = "key"
    /\ IF key_missing(credential) THEN Exit(1)
       ELSE /\ mainPc' = IF argv.command = "chat" THEN "chat" ELSE "validate"
            /\ UNCHANGED exitStatus
    /\ UNCHANGED <<procVars, credential, client, chatVars, argv, printed, linesRead>>

\* Path(path).exists() and Path(path).is_file()
path_exists(f, ds, p) == p \in DOMAIN f \/ (p.dir \o <<p.name>>) \in ds
path_is_file(f, p) == p \in DOMAIN f

\* the checks before the command runs: the path exists and is a file, and
\* migrate has a target that is not empty
validate(a, f, ds) ==
    IF ~path_exists(f, ds, a.path[1]) THEN "missing"
    ELSE IF ~path_is_file(f, a.path[1]) THEN "not_a_file"
    ELSE IF a.command = "migrate" /\ ~TruthyText(a.target) THEN "no_target"
    ELSE "ok"

Validate ==
    /\ mainPc = "validate"
    /\ IF validate(argv, fs, dirs) = "ok"
       THEN mainPc' = "construct" /\ UNCHANGED exitStatus
       ELSE Exit(1)
    /\ UNCHANGED <<procVars, credential, client, chatVars, argv, printed, linesRead>>

\* `orchestrator = FlowOrchestrator()` in main, outside its try: what the
\* constructor raises ends the process with a traceback
MainConstruct(outcome) ==
    /\ mainPc = "construct"
    /\ client' = construct(credential, outcome)
    /\ IF client' = "ready"
       THEN mainPc' = "call" /\ UNCHANGED exitStatus
       ELSE Exit(1)
    /\ UNCHANGED <<procVars, credential, chatVars, argv, printed, linesRead>>

\* `result = orchestrator.process_command(command=args.command, ...)`
MainCall ==
    /\ mainPc = "call"
    /\ Call(argv.command, argv.path, argv.output, argv.secure, argv.target)
    /\ mainPc' = "command"
    /\ UNCHANGED <<credential, client, chatVars, argv, exitStatus, printed, linesRead>>

\* process_command returned: `if result: print(result)`, and main comes to
\* its end, whatever the result says
MainResult ==
    /\ mainPc = "command" /\ pc = "done"
    /\ printed' = Append(printed, ret)
    /\ Exit(0)
    /\ UNCHANGED <<procVars, credential, client, chatVars, argv, linesRead>>

\* `except KeyboardInterrupt: ... sys.exit(1)`
MainInterrupted ==
    /\ mainPc = "command" /\ pc = "interrupted"
    /\ Exit(1)
    /\ UNCHANGED <<procVars, credential, client, chatVars, argv, printed, linesRead>>

exit_text == <<"e","x","i","t">>
quit_text == <<"q","u","i","t">>
help_text == <<"h","e","l","p">>

\* `orchestrator = FlowOrchestrator()` in handle_chat_mode, inside main's
\* try: what the constructor raises is printed and main returns
ChatConstruct(outcome) ==
    /\ mainPc = "chat"
    /\ client' = construct(credential, outcome)
    /\ IF client' = "ready"
       THEN mainPc' = "prompt" /\ UNCHANGED exitStatus
       ELSE Exit(0)
    /\ UNCHANGED <<procVars, credential, chatVars, argv, printed, linesRead>>

\* The user, at the "breeze> " prompt, types a line.
UserTypesChat(line) ==
    /\ mainPc = "prompt"
    /\ stdin = <<>>
    /\ linesRead < MaxRequests
    /\ stdin' = <<line>>
    /\ UNCHANGED <<args, pc, file_content, result, ret, disk, fs0, dirs0, gate,
                   responses, hints, views, remoteCalls, remoteLog, steps, cliVars>>

\* Faulty variant: the line is compared as typed
chat_branch_as_typed(line) ==
    IF line \in {exit_text, quit_text} THEN "exit"
    ELSE IF line = help_text THEN "help"
    ELSE IF line = <<>> THEN "empty"
    ELSE "request"

\* the branch of the loop's if/elif chain taken for the line read
chat_branch(line) ==
    IF Lower(Strip(line)) \in {exit_text, quit_text} THEN "exit"
    ELSE IF Lower(Strip(line)) = help_text THEN "help"
    ELSE IF Strip(line) = <<>> THEN "empty"
    ELSE "request"

\* One turn of handle_chat_mode's loop up to the call of process_chat_input:
\* `user_input = input("breeze> ").strip()` and the branches on it.  exit and
\* quit leave the loop and main returns; help and an empty line go back to
\* the prompt; any other line is handed to process_chat_input.
ChatRead ==
    /\ mainPc = "prompt"
    /\ stdin # <<>>
    /\ stdin' = <<>>
    /\ linesRead' = linesRead + 1
    /\ CASE chat_branch(stdin[1]) = "exit" ->
              /\ Exit(0)
              /\ UNCHANGED <<user_input, chat>>
         [] chat_branch(stdin[1]) \in {"help", "empty"} ->
              UNCHANGED <<mainPc, exitStatus, user_input, chat>>
         [] OTHER ->
              /\ mainPc' = "request"
              /\ user_input' = Strip(stdin[1])
              /\ chat' = "parse"
              /\ UNCHANGED exitStatus
    /\ UNCHANGED <<args, pc, file_content, result, ret, disk, fs0, dirs0, gate,
                   responses, hints, views, remoteCalls, remoteLog, steps,
                   credential, client, intent, chatRet, argv, printed>>

\* The input ends at the chat prompt: input() raises EOFError, `except
\* Exception` prints it and the loop goes on.
ChatEOF ==
    /\ mainPc = "prompt"
    /\ stdin = <<>>
    /\ linesRead < MaxRequests
    /\ linesRead' = linesRead + 1
    /\ UNCHANGED <<procVars, credential, client, chatVars, argv, mainPc,
                   exitStatus, printed>>

\* Faulty variant: a request that ended in an error report ends the session
ChatPrint_stops_on_error ==
    /\ mainPc = "request" /\ chat = "returned"
    /\ printed' = Append(printed, chatRet)
    /\ IF chatRet.kind = "error"
       THEN /\ Exit(1)
            /\ UNCHANGED <<chatVars, pc, file_content, result, ret, gate,
                           responses, hints, views, steps>>
       ELSE /\ mainPc' = "prompt"
            /\ chat' = "idle" /\ user_input' = <<>> /\ intent' = NoIntent
            /\ chatRet' = NoRet
            /\ pc' = "idle" /\ file_content' = <<>> /\ result' = "" /\ ret' = NoRet
            /\ gate' = "none" /\ responses' = <<>> /\ hints' = 0 /\ views' = 0
            /\ steps' = <<>>
            /\ UNCHANGED exitStatus
    /\ UNCHANGED <<args, disk, fs0, dirs0, stdin, remoteCalls, remoteLog,
                   credential, client, argv, linesRead>>

\* `print(result)`, and the loop is at the prompt again; the request's
\* local variables are gone
ChatPrint ==
    /\ mainPc = "request" /\ chat = "returned"
    /\ printed' = Append(printed, chatRet)
    /\ mainPc' = "prompt"
    /\ chat' = "idle" /\ user_input' = <<>> /\ intent' = NoIntent /\ chatRet' = NoRet
    /\ pc' = "idle" /\ file_content' = <<>> /\ result' = "" /\ ret' = NoRet
    /\ gate' = "none" /\ responses' = <<>> /\ hints' = 0 /\ views' = 0
    /\ steps' = <<>>
    /\ UNCHANGED <<args, disk, fs0, dirs0, stdin, remoteCalls, remoteLog,
                   credential, client, argv, exitStatus, linesRead>>

\* `except KeyboardInterrupt: print("\nGoodbye!"); break`: the user
\* interrupts at the chat prompt, or at the approval prompt of a request
ChatLoopInterrupt ==
    /\ \/ mainPc = "prompt" /\ stdin = <<>>
       \/ mainPc = "request" /\ chat = "interrupted"
    /\ Exit(0)
    /\ UNCHANGED <<procVars, credential, client, chatVars, argv, printed, linesRead>>

\* `breeze ...` from its start to its exit
MainNext ==
    \/ \E a \in CommandLines : ParseArgs(a)
    \/ CheckKey
    \/ Validate
    \/ \E o \in ConstructOutcomes : MainConstruct(o)
    \/ MainCall
    \/ MainResult
    \/ MainInterrupted
    \/ \E o \in ConstructOutcomes : ChatConstruct(o)
    \/ \E line \in ChatLines : UserTypesChat(line)
    \/ ChatRead
    \/ ChatEOF
    \/ ChatPrint
    \/ ChatLoopInterrupt
    \/ ChatStep
    \/ ProcessStep(SessionResponses)

MainSpec == MainInit /\ [][MainNext]_vars

(***************************************************************************)
(* Properties                                                              *)
(***************************************************************************)
DiskUnchanged == fs = fs0 /\ dirs = dirs0

\* every file but p is as it was before the step
OthersKept(p) ==
    /\ DOMAIN fs' \ {p} = DOMAIN fs \ {p}
    /\ \A q \in DOMAIN fs \ {p} : fs'[q] = fs[q]

\* _handle_output runs and returns in this step
OutputStep == pc = "output" /\ pc' = "done"

ReadOnlyKinds == {"summarize", "test", "inspect"}
MutatingKinds == {"doc", "refactor", "annotate", "migrate"}

\* C1: in a request with secure mode requested, no file is created or
\* overwritten unless the Approval Gate was entered and reached approved,
\* for every command and every output mode.
C1_SecureWriteNeedsApproval ==
    (pc # "idle" /\ secure /\ ~DiskUnchanged) => gate = "approved"

\* C2: the answers "x", "v", "n" at the Approval Gate give exactly one usage
\* hint, exactly one full-content print and the state rejected;
\* process_command has then returned the cancellation message and the disk
\* is as before the request, in every output mode.
C2_XVN_Rejects ==
    (gate # "none" /\ responses = << <<"x">>, <<"v">>, <<"n">> >>) =>
        /\ hints = 1 /\ views = 1
        /\ gate = "rejected"
        /\ pc = "done" /\ ret = Cancelled
        /\ DiskUnchanged

C2_Witness ==
    /\ responses = << <<"x">>, <<"v">>, <<"n">> >>
    /\ output_mode = "in-place" /\ path = <<a_py>>
    /\ pc = "done"

\* the lines the user types, by what they are after lower-casing and trimming
C3_YesLines  == { <<"y">>, <<" ","Y","E","S"," ">> }
C3_NoLines   == { <<"n">>, <<"N","o">> }
C3_ViewLines == { <<"v">>, <<"V","i","e","w">> }

C3_Turn ==
    (pc = "gate" /\ stdin # <<>> /\ stdin' = <<>>) =>
        /\ gate = "prompting"
        /\ stdin[1] \in C3_YesLines =>
              gate' = "approved" /\ pc' = "output" /\ ret' = ret
        /\ stdin[1] \in C3_NoLines =>
              gate' = "rejected" /\ pc' = "done" /\ ret' = Cancelled
        /\ stdin[1] \in C3_ViewLines =>
              gate' = "prompting" /\ pc' = "gate" /\ views' = views + 1 /\ hints' = hints
        /\ stdin[1] \notin C3_YesLines \cup C3_NoLines \cup C3_ViewLines =>
              gate' = "prompting" /\ pc' = "gate" /\ hints' = hints + 1 /\ views' = views

C3_Terminal ==
    /\ gate \in {"approved", "rejected"} => gate' = gate
    /\ (gate = "prompting" /\ gate' \in {"approved", "rejected"}) =>
          stdin # <<>> /\ stdin[1] \in C3_YesLines \cup C3_NoLines
    /\ (pc = "gate" /\ pc' \in {"output", "done"} /\ ret'.kind # "error") =>
          gate' \in {"approved", "rejected"}

\* C3: the Approval Gate goes from prompting to approved on y/yes (and
\* approve_changes returns true), to rejected on n/no (false), prints the
\* full content and stays prompting on v/view, prints a usage hint and stays
\* prompting on anything else; it returns only on y/yes/n/no, approved and
\* rejected are terminal, and once y or n is entered the gate terminates.
C3_GateMachine ==
    /\ [][C3_Turn /\ C3_Terminal]_vars
    /\ (pc = "gate" /\ stdin # <<>> /\ stdin[1] \in C3_YesLines \cup C3_NoLines)
           ~> (gate \in {"approved", "rejected"})

C3_Witness ==
    /\ responses = << <<"V","i","e","w">>, <<"s">>, <<" ","Y","E","S"," ">> >>
    /\ gate = "approved" /\ views = 1 /\ hints = 1

\* C4: the Approval Gate is entered only in a request with secure mode and a
\* mutating command kind: never without secure, and never for summarize,
\* test or inspect.
C4_GateOnlySecureMutating ==
    /\ gate # "none" => secure /\ command \in MutatingKinds
    /\ ~secure => gate = "none"
    /\ command \in ReadOnlyKinds => gate = "none"

C4_Witness == gate = "prompting" /\ secure /\ command = "annotate"

\* C5: the Output Handler with mode in-place on a read-only command kind
\* writes no file (the source file is unchanged, no other file is created)
\* and, given the source file the claim speaks of, returns the "not
\* supported" result.
C5_InPlaceReadOnly ==
    [][(OutputStep /\ output_mode = "in-place" /\ command \in ReadOnlyKinds) =>
          /\ fs' = fs /\ dirs' = dirs
          /\ TruthyPath(path) => ret' = Unsupported]_vars

C5_Witness ==
    /\ pc = "done" /\ output_mode = "in-place" /\ command = "summarize"
    /\ path = <<a_py>> /\ ret = Unsupported /\ result = RemoteText

\* C6: the Output Handler with mode console returns the result text
\* unchanged and leaves the disk alone, for every result, command and path.
C6_ConsoleReturnsResult ==
    [][(OutputStep /\ output_mode = "console") =>
          ret' = TextRet(result) /\ fs' = fs /\ dirs' = dirs]_vars

C6_Witness ==
    /\ pc = "done" /\ output_mode = "console" /\ path = <<a_py>>
    /\ ret = TextRet(RemoteText)

\* C7: the Output Handler with mode in-place, a file path and a mutating
\* command kind overwrites the source file with exactly the result text,
\* writes no other file and returns "Changes applied to <path>" (unless the
\* write itself fails, which is reported and touches no other file).
C7_InPlaceOverwrites ==
    [][(OutputStep /\ output_mode = "in-place" /\ TruthyPath(path)
            /\ command \in MutatingKinds) =>
          /\ OthersKept(path[1])
          /\ dirs' = dirs
          /\ \/ ret'.kind = "error"
             \/ /\ path[1] \in DOMAIN fs' /\ fs'[path[1]] = result
                /\ ret' = Applied(path[1])]_vars

C7_Witness ==
    /\ pc = "done" /\ command = "doc" /\ path = <<a_py>>
    /\ ret = Applied(a_py) /\ fs[a_py] = RemoteText /\ fs0[a_py] = "code"

\* the output path the rule of C8 gives
C8_Derived(p, cmd) ==
    LET stem == Stem(p.name)
        suffix == Suffix(p.name)
    IN  CASE cmd = "doc" ->
               File(p.dir, stem \o <<".","d","o","c","u","m","e","n","t","e","d">> \o suffix)
          [] cmd = "summarize" ->
               File(p.dir, stem \o <<".","s","u","m","m","a","r","y",".","m","d">>)
          [] cmd = "inspect" ->
               File(p.dir, stem \o <<".","i","n","s","p","e","c","t","i","o","n",".","m","d">>)
          [] cmd = "refactor" ->
               File(p.dir, stem \o <<".","r","e","f","a","c","t","o","r","e","d">> \o suffix)
          [] cmd = "annotate" ->
               File(p.dir, stem \o <<".","a","n","n","o","t","a","t","e","d">> \o suffix)
          [] cmd = "migrate" ->
               File(p.dir, stem \o <<".","m","i","g","r","a","t","e","d">> \o suffix)
          [] cmd = "test" ->
               File(p.dir \o << <<"t","e","s","t","s">> >>,
                    <<"t","e","s","t","_">> \o stem \o get_test_extension(get_file_type(p)))

\* the rule on three files, written out
C8_Examples ==
    /\ C8_Derived(a_py, "doc") =
          File(<<>>, <<"a",".","d","o","c","u","m","e","n","t","e","d",".","p","y">>)
    /\ C8_Derived(w_JS, "test") =
          File(<< <<"t","e","s","t","s">> >>,
               <<"t","e","s","t","_","w",".","t","e","s","t",".","j","s">>)
    /\ C8_Derived(d_b_txt, "summarize") =
          File(<< <<"d">> >>, <<"b",".","s","u","m","m","a","r","y",".","m","d">>)

\* C8: the Output Handler with mode new-file and a file path writes the
\* result text to the path derived from the source path and the command by
\* the static rule, for each of the seven commands, makes the missing parent
\* directories and returns "Output saved to <derived path>" (unless making
\* the directory or the write fails, which is reported).
C8_NewFileDerivedPath ==
    [][(OutputStep /\ output_mode = "new-file" /\ TruthyPath(path)) =>
          LET out == C8_Derived(path[1], command)
          IN  /\ C8_Examples
              /\ command \in Commands
              /\ OthersKept(out)
              /\ \/ ret'.kind = "error"
                 \/ /\ out \in DOMAIN fs' /\ fs'[out] = result
                    /\ Ancestors(out.dir) \subseteq dirs'
                    /\ dirs' = dirs \cup Ancestors(out.dir)
                    /\ ret' = Saved(out)]_vars

C8_Witness ==
    /\ pc = "done" /\ output_mode = "new-file" /\ command = "test" /\ path = <<w_JS>>
    /\ ret = Saved(File(<< <<"t","e","s","t","s">> >>,
                        <<"t","e","s","t","_","w",".","t","e","s","t",".","j","s">>))
    /\ << <<"t","e","s","t","s">> >> \in dirs \ dirs0

\* C9: for a command key outside the seven, the Command Router raises
\* "unknown command", which process_command returns as an error report: never
\* a normal result; no handler runs, no remote call is made, the Approval
\* Gate is not entered and no file is written.
C9_UnknownCommand ==
    (pc # "idle" /\ command \notin
        {"doc", "summarize", "test", "inspect", "refactor", "annotate", "migrate"}) =>
        /\ remoteCalls = 0 /\ gate = "none" /\ DiskUnchanged
        /\ pc \in {"read", "route", "done"}
        /\ result = ""
        /\ pc = "done" => ret.kind = "error"
        /\ (pc = "done" /\ steps[Len(steps)] = "route") => ret = ErrorRet("Unknown command")

C9_Witness ==
    /\ pc = "done" /\ command = "lint" /\ path = <<a_py>>
    /\ steps = <<"read", "route">> /\ ret = ErrorRet("Unknown command")

\* C10: migrate with no target (None or empty) ends in the error outcome, as
\* an unknown command key does, and the migration handler makes no remote call.
C10_MissingTargetIsError ==
    (pc = "done" /\ command = "migrate" /\ ~TruthyText(target)) =>
        ret.kind = "error" /\ remoteCalls = 0


\* the command keywords found in a text, by their place in the fixed list
KeywordsIn(text) ==
    {k \in 1..Len(intent_commands) : Contains(Lower(text), intent_commands[k][2])}

\* the tokens of a text: its longest runs without white space, as <<first, last>>
TokenSpans(text) ==
    {sp \in (1..Len(text)) \X (1..Len(text)) :
        /\ sp[1] <= sp[2]
        /\ \A j \in sp[1]..sp[2] : text[j] \notin Whitespace
        /\ sp[1] = 1 \/ text[sp[1] - 1] \in Whitespace
        /\ sp[2] = Len(text) \/ text[sp[2] + 1] \in Whitespace}

C11_Extensions ==
    { <<"p","y">>, <<"j","s">>, <<"t","s">>, <<"j","a","v","a">>
    , <<"c","p","p">>, <<"c">>, <<"c","s">>, <<"p","h","p">>
    , <<"r","b">>, <<"g","o">>, <<"r","s">>, <<"s","w","i","f","t">>
    , <<"k","t">>, <<"s","c","a","l","a">>, <<"h","t","m","l">>, <<"c","s","s">>
    , <<"s","q","l">>, <<"j","s","o","n">>, <<"x","m","l">>, <<"y","a","m","l">>
    , <<"y","m","l">>, <<"m","d">>, <<"t","x","t">>, <<"s","h">>
    , <<"b","a","t">>, <<"p","s","1">>
    }

\* the token ends in a dot and a known extension
C11_EndsInExtension(token) ==
    \E e \in C11_Extensions :
        /\ Len(token) > Len(e) + 1
        /\ Lower(SubSeq(token, Len(token) - Len(e), Len(token))) = <<".">> \o e

C11_FileTokens(text) ==
    {sp \in TokenSpans(text) : C11_EndsInExtension(SubSeq(text, sp[1], sp[2]))}

\* C11: a text with exactly one command keyword and exactly one token ending
\* in a known extension is resolved to that keyword as command and to that
\* whole token, character for character, as path.
C11_CommandAndPathExact ==
    (/\ chat = "dispatch"
     /\ Cardinality(KeywordsIn(user_input)) = 1
     /\ Cardinality(C11_FileTokens(user_input)) = 1) =>
        /\ \A k \in KeywordsIn(user_input) : intent.command = <<intent_commands[k][1]>>
        /\ \A sp \in C11_FileTokens(user_input) :
              intent.path = <<SubSeq(user_input, sp[1], sp[2])>>

C12_Order == <<"doc", "summarize", "test", "inspect", "refactor", "annotate", "migrate">>

C12_Place(cmd) == CHOOSE k \in 1..Len(C12_Order) : C12_Order[k] = cmd

C12_Found(text) == {intent_commands[k][1] : k \in KeywordsIn(text)}

C14_NoCredentialExitsFirst ==
    (/\ mainPc \notin {"start", "key"}
     /\ parse_args(argv) = "ok"
     /\ (credential = <<>> \/ credential = <<"">>)) =>
        /\ mainPc = "exited" /\ exitStatus = <<1>>
        /\ client = "none"
        /\ pc = "idle" /\ steps = <<>> /\ file_content = <<>>
        /\ chat = "idle" /\ linesRead = 0
        /\ remoteCalls = 0
        /\ printed = <<>> /\ DiskUnchanged

C14_Witness ==
    /\ mainPc = "exited" /\ exitStatus = <<1>>
    /\ credential = <<>>
    /\ argv = Args("migrate", <<a_py>>, "console", FALSE, <<Python_3_12>>)

\* C15: a command line with a subcommand other than chat ends with status 0
\* only when the command completed without error: a result was printed and
\* it is no error report.
C15_ZeroExitOnlyOnSuccess ==
    (/\ mainPc = "exited"
     /\ argv # NoArgs /\ argv.command # "chat"
     /\ exitStatus = <<0>>) =>
        /\ Len(printed) = 1
        /\ printed[1].kind # "error"

\* the outcome of the remote call made in this step
LastOutcome == remoteLog'[Len(remoteLog')]

\* the file an in-place or new-file write of this request goes to
WriteTarget ==
    IF output_branch(output_mode, path) = "in-place" THEN path[1]
    ELSE get_output_filename(path[1], command)

\* this step is the failure of a file read, of the command look-up, of a
\* remote call, of the approval prompt (end of input) or of a file write
C16_StepFails ==
    \/ /\ pc = "read" /\ TruthyPath(path)
       /\ (path[1] \notin DOMAIN fs \/ fs[path[1]] = Undecodable)
    \/ pc = "route" /\ command \notin Commands
    \/ remoteLog' # remoteLog /\ LastOutcome \in {"raise", "no_parts"}
    \/ /\ pc = "gate" /\ gate = "prompting" /\ stdin = <<>>
       /\ pc' \notin {"gate", "interrupted"}
    \/ /\ pc = "output"
       /\ \/ output_branch(output_mode, path) = "in-place" /\ command \in MutatingKinds
          \/ output_branch(output_mode, path) = "new-file"
       /\ (WriteTarget \notin DOMAIN fs' \/ fs'[WriteTarget] # result)

\* C16: every failure while a request is processed (file read, unknown
\* command, remote call, approval prompt, file write) ends process_command
\* and process_chat_input by returning an error report; both functions end
\* only by returning a value (or by the user's interrupt), and
\* process_chat_input hands on what process_command returned.
C16_ErrorsAreReported ==
    [][/\ C16_StepFails =>
            IF chat \in {"parse", "general"}
            THEN chat' = "returned" /\ chatRet'.kind = "error"
            ELSE pc' = "done" /\ ret'.kind = "error"
       /\ (pc # "done" /\ pc' = "done") =>
            ret'.kind \in {"text", "applied", "saved", "unsupported", "cancelled", "error"}
       /\ (chat = "command" /\ chat' # chat) =>
            \/ pc = "done" /\ chat' = "returned" /\ chatRet' = ret
            \/ pc = "interrupted" /\ chat' = "interrupted"
       /\ (chat # "returned" /\ chat' = "returned") => chatRet'.kind # "none"]_vars

\* "test m.py" in chat: m.py is not there to read
C16_Witness ==
    /\ chat = "returned"
    /\ user_input = <<"t","e","s","t"," ","m",".","p","y">>
    /\ steps = <<"read">>
    /\ chatRet = ErrorRet("Failed to read file")

\* C17: process_command with doc on a readable file that is not empty, mode
\* console, secure not set: one remote call is made, no file is created or
\* changed, and when the call answers with text the result returned is that
\* text.
C17_DocConsoleVerbatim ==
    (/\ pc = "done" /\ command = "doc" /\ output_mode = "console" /\ ~secure
     /\ TruthyPath(path) /\ path[1] \in DOMAIN fs0
     /\ fs0[path[1]] \notin {"", Undecodable}) =>
        /\ remoteCalls = 1 /\ Len(remoteLog) = 1
        /\ DiskUnchanged
        /\ remoteLog[1] = "text" => ret = TextRet(RemoteText)

C17_Witness ==
    /\ pc = "done" /\ command = "doc" /\ path = <<a_py>>
    /\ output_mode = "console" /\ ~secure
    /\ remoteLog = <<"text">> /\ remoteCalls = 1
    /\ ret = TextRet(RemoteText)
    /\ steps = <<"read", "route", "remote", "output">>

C18_TypedLanguages ==
    {"python", "typescript", "java", "cpp", "c", "csharp", "go", "rust", "php",
     "javascript"}

C18_Notices ==
    {"Type annotations are not typically applicable",
     "No content provided for type annotation."}

\* C18: annotate on a file whose detected type is none of python,
\* typescript, java, cpp, c, csharp, go, rust, php, javascript returns a
\* notice as its result and makes no remote call.
C18_AnnotateRefusesUntyped ==
    [][(/\ pc = "route" /\ command = "annotate" /\ TruthyPath(path)
        /\ nodes_get_file_type(path[1]) \notin C18_TypedLanguages) =>
           /\ remoteCalls' = remoteCalls /\ remoteLog' = remoteLog
           /\ result' \in C18_Notices
           /\ pc' \in {"gate", "output"}]_vars

C18_Witness ==
    /\ pc = "done" /\ command = "annotate" /\ path = <<d_b_txt>>
    /\ file_content = <<"code">>
    /\ result = "Type annotations are not typically applicable"
    /\ remoteCalls = 0

\* C19: a call of the remote client makes one attempt; when the attempt
\* raises the call fails with the runtime error; when the attempt returns
\* and holds no candidate text the call returns the sentinel; else it
\* returns the candidate's text.  Constructing the client without a
\* credential fails with the configuration error, no remote call made.
C19_SingleAttemptOutcomes ==
    [][/\ remoteLog' # remoteLog =>
            /\ remoteCalls' = remoteCalls + 1
            /\ Len(remoteLog') = Len(remoteLog) + 1
            /\ LastOutcome = "raise" =>
                  pc' = "done" /\ ret' = ErrorRet("Gemini API call failed")
            /\ LastOutcome \in {"empty", "no_parts"} =>
                  result' = "No response generated from Gemini API"
            /\ LastOutcome = "text" => result' = RemoteText
       /\ (client = "none" /\ client' # "none" /\ ~Truthy(credential)) =>
            client' = "config_error" /\ remoteCalls' = 0]_vars

C20_ExitLines == { <<"e","x","i","t">>, <<" ","Q","U","I","T"," ">> }
C20_SkipLines == { <<"H","e","l","p">>, <<>> }

\* C20: in chat mode a line is read only at the prompt, when no request is
\* being processed; a request that was begun is processed to its return and
\* its result printed before the prompt is reached again.  exit and quit
\* (trimmed, any letter case) end the loop, help and an empty line go back
\* to the prompt: none of them makes a remote call, writes a file or starts
\* a request.
C20_OneRequestAtATime ==
    [][/\ linesRead' # linesRead =>
            /\ mainPc = "prompt" /\ chat = "idle" /\ pc = "idle"
            /\ Len(printed) <= linesRead
       /\ (mainPc = "request" /\ mainPc' = "prompt") =>
            /\ chat = "returned"
            /\ printed' = Append(printed, chatRet)
       /\ (mainPc = "request" /\ mainPc' \notin {"request", "prompt"}) =>
            chat = "interrupted"
       /\ (mainPc = "prompt" /\ stdin # <<>> /\ stdin[1] \in C20_ExitLines) =>
            /\ mainPc' = "exited"
            /\ chat' = "idle" /\ pc' = "idle"
            /\ remoteCalls' = remoteCalls /\ fs' = fs /\ dirs' = dirs
       /\ (mainPc = "prompt" /\ stdin # <<>> /\ stdin[1] \in C20_SkipLines) =>
            /\ mainPc' = "prompt" /\ stdin' = <<>>
            /\ chat' = "idle" /\ pc' = "idle"
            /\ remoteCalls' = remoteCalls /\ printed' = printed
            /\ fs' = fs /\ dirs' = dirs]_vars

\* one request was processed and printed, then " QUIT " ended the session
C20_Witness ==
    /\ mainPc = "exited" /\ exitStatus = <<0>>
    /\ linesRead = 2 /\ Len(printed) = 1
    /\ printed[1].kind = "applied"

\* process_command has come to _handle_output in this request
OutputTaken == \E i \in DOMAIN steps : steps[i] = "output"

\* the step in which KeyboardInterrupt leaves approve_changes
C21_InterruptStep == pc = "gate" /\ pc' = "interrupted"

\* C21: a user interrupt while the Approval Gate is prompting aborts the
\* request: process_command returns nothing, the request has written no file
\* up to then (its output step has not run) and writes none afterwards, and
\* the files earlier requests of the session wrote stay as they were written.
C21_InterruptAborts ==
    [][/\ C21_InterruptStep =>
            /\ gate = "prompting" /\ ~OutputTaken
            /\ fs = fs0 /\ dirs = dirs0
            /\ fs' = fs /\ dirs' = dirs
            /\ ret' = NoRet /\ printed' = printed
       /\ pc = "interrupted" =>
            /\ pc' = "interrupted"
            /\ fs' = fs /\ dirs' = dirs
            /\ printed' = printed
            /\ mainPc' \in {mainPc, "exited"}]_vars

\* a session's first request rewrote a.py, its second was interrupted at the
\* approval prompt, and the session has ended
C21_Witness ==
    /\ pc = "interrupted" /\ mainPc = "exited" /\ linesRead = 2
    /\ command = "annotate" /\ gate = "prompting"
    /\ fs[a_py] = RemoteText /\ InitialFiles[a_py] = "code"
    /\ fs = fs0
    /\ Len(printed) = 1 /\ printed[1] = Applied(a_py)

\* the steps of one process_command invocation, in the order of its code
C22_Order == <<"read", "route", "remote", "gate", "output">>

C22_Place(step) == CHOOSE k \in DOMAIN C22_Order : C22_Order[k] = step

\* a step changes a file or makes a directory
C22_Writes == fs' # fs \/ dirs' # dirs

\* C22: within one process_command invocation the steps come in the order
\* file read, command routing with at most one remote call, Approval Gate
\* (when entered), output handling, each at most once; a file is written
\* only in the output step, so after routing and any remote call have
\* returned and, when the gate was entered, after it reached approved.
C22_FixedOrder ==
    /\ [](/\ \A i \in DOMAIN steps : steps[i] \in {C22_Order[k] : k \in DOMAIN C22_Order}
          /\ \A i, j \in DOMAIN steps : i < j => C22_Place(steps[i]) < C22_Place(steps[j])
          /\ remoteCalls <= 1
          /\ remoteCalls = Len(remoteLog)
          /\ (\E i \in DOMAIN steps : steps[i] = "remote") <=> remoteCalls = 1
          /\ (\E i \in DOMAIN steps : steps[i] = "gate") <=> gate # "none"
          /\ (TruthyPath(path) /\ pc \notin {"idle", "read"}) => steps[1] = "read"
          /\ pc \in {"gate", "output"} =>
                \E i \in DOMAIN steps : steps[i] = "route"
          /\ ~DiskUnchanged => OutputTaken)
    /\ [][C22_Writes =>
            /\ pc = "output" /\ pc' = "done"
            /\ steps' = Append(steps, "output")
            /\ \E i \in DOMAIN steps : steps[i] = "route"
            /\ gate \in {"none", "approved"}
            /\ gate # "none" => steps[Len(steps)] = "gate"]_vars

\* a request that took all five steps and wrote its file at the end
C22_Witness ==
    /\ pc = "done" /\ steps = C22_Order
    /\ gate = "approved" /\ remoteCalls = 1
    /\ ret = Applied(a_py) /\ fs[a_py] = RemoteText /\ fs0[a_py] = "code"

\* the text handed to the Intent Resolver contains `sub`, whatever its case
C23_Has(sub) == Contains(Lower(user_input), sub)

\* the places in the text where a literal --target is followed by white space
\* and then an argument
C23_TargetFlagAt ==
    {i \in 1..Len(user_input) :
        /\ i + 9 <= Len(user_input)
        /\ SubSeq(user_input, i, i + 7) = <<"-","-","t","a","r","g","e","t">>
        /\ user_input[i + 8] \in Whitespace
        /\ \E j \in (i + 9)..Len(user_input) :
              /\ user_input[j] \notin Whitespace \cup {"\"", "'"}
              /\ \A k \in (i + 8)..(j - 1) : user_input[k] \in Whitespace \cup {"\"", "'"}}

\* the intent has been resolved from user_input
C23_Resolved == chat \in {"dispatch", "command", "general"}

\* C23: the Intent Resolver sets the output mode to in-place when the text
\* contains "in-place" in any case, otherwise to new-file when it contains
\* "new-file", otherwise leaves it unset; sets require-approval to true
\* exactly when the text contains "secure" or "confirm"; sets the target only
\* when the command is migrate and a literal --target is followed by an
\* argument (and then it does, to text that follows the flag).  At dispatch
\* the unset fields are output mode console, require-approval false, no target.
C23_ModeSecureTarget ==
    /\ C23_Resolved =>
          /\ C23_Has(<<"i","n","-","p","l","a","c","e">>) => intent.output_mode = <<"in-place">>
          /\ (~C23_Has(<<"i","n","-","p","l","a","c","e">>)
                /\ C23_Has(<<"n","e","w","-","f","i","l","e">>)) =>
                intent.output_mode = <<"new-file">>
          /\ (~C23_Has(<<"i","n","-","p","l","a","c","e">>)
                /\ ~C23_Has(<<"n","e","w","-","f","i","l","e">>)) =>
                intent.output_mode = <<>>
          /\ (C23_Has(<<"s","e","c","u","r","e">>) \/ C23_Has(<<"c","o","n","f","i","r","m">>))
                => intent.secure = <<TRUE>>
          /\ ~(C23_Has(<<"s","e","c","u","r","e">>) \/ C23_Has(<<"c","o","n","f","i","r","m">>))
                => intent.secure = <<>>
          /\ intent.target # <<>> <=>
                (intent.command = <<"migrate">> /\ C23_TargetFlagAt # {})
          /\ intent.target # <<>> =>
                /\ intent.target[1] # <<>>
                /\ \E i \in C23_TargetFlagAt, j \in 1..Len(user_input) :
                      /\ j >= i + 9
                      /\ SubSeq(user_input, j, j + Len(intent.target[1]) - 1)
                            = intent.target[1]
    /\ chat = "command" =>
          /\ output_mode = (IF intent.output_mode = <<>> THEN "console"
                            ELSE intent.output_mode[1])
          /\ secure = (intent.secure = <<TRUE>>)
          /\ target = intent.target
          /\ command = intent.command[1]

\* a text with both "new-file" and "in-place" is dispatched in-place, with
\* require-approval false and no target, and the file is rewritten
C23_Witness ==
    /\ chat = "command" /\ pc = "done"
    /\ C23_Has(<<"n","e","w","-","f","i","l","e">>)
    /\ C23_Has(<<"i","n","-","p","l","a","c","e">>)
    /\ intent.secure = <<>> /\ intent.target = <<>>
    /\ output_mode = "in-place" /\ ~secure /\ target = <<>>
    /\ ret = Applied(a_py)

\* the handler's result is a notice made locally: it returned without a
\* remote call, or the call came back with the "no response" sentinel
C24_LocalNotice ==
    \/ remoteCalls = 0 /\ result # ""
    \/ result = "No response generated from Gemini API"

\* C24: an in-place write replaces the source file only with text the remote
\* service produced: when the handler's result is a local notice (annotate on
\* an untyped file type, migrate without a target, empty content, the "no
\* response" sentinel), process_command in mode in-place leaves the source
\* file as it was.
C24_InPlaceOnlyRemoteText ==
    (output_mode = "in-place" /\ TruthyPath(path) /\ C24_LocalNotice) =>
        /\ path[1] \in DOMAIN fs
        /\ fs[path[1]] = fs0[path[1]]

\* the errors process_command can end in before it comes to _handle_output
C25_EarlyErrors ==
    {"Failed to read file", "Unknown command", "Gemini API call failed", "EOFError"}

\* C25: when process_command ends in an error raised before the output step
\* (the file cannot be read, the command is unknown, the remote call fails,
\* the approval prompt fails), the invocation has created and modified no
\* file and no directory: the disk is as it was before the invocation.
C25_EarlyErrorNoWrite ==
    (pc = "done" /\ ret.kind = "error" /\ ~OutputTaken) =>
        /\ ret.text \in C25_EarlyErrors
        /\ fs = fs0 /\ dirs = dirs0

\* the input ended at the approval prompt after the user had asked for a
\* preview to be saved: the error is reported, nothing was written
C25_Witness ==
    /\ pc = "done" /\ ret = ErrorRet("EOFError") /\ gate = "prompting"
    /\ responses = << <<"s">> >> /\ result = RemoteText
    /\ output_mode = "in-place" /\ path = <<a_py>>
    /\ fs = InitialFiles

\* file names the derivation of the output path is tried on: plain ones, ones
\* that are themselves the output of an earlier run, and ones without a suffix
C26_Names ==
    { <<"a",".","p","y">>
    , <<"a",".","s","u","m","m","a","r","y",".","m","d">>
    , <<"a",".","i","n","s","p","e","c","t","i","o","n",".","m","d">>
    , <<"a",".","d","o","c","u","m","e","n","t","e","d",".","p","y">>
    , <<"a",".","o","u","t","p","u","t",".","t","x","t">>
    , <<"t","e","s","t","_","a",".","p","y">>
    , <<"t","e","s","t","_","a",".","t","e","s","t",".","j","s">>
    , <<"M","a","k","e","f","i","l","e">>
    , <<".","b","a","s","h","r","c">>
    , <<"a",".">>
    , <<"t","e","s","t","s">>
    , <<"w",".","J","S">>
    }

C26_Dirs == {<<>>, << <<"d">> >>, << <<"t","e","s","t","s">> >>}

\* C26: for every source path and every command kind (and a key that is none
\* of them), the output path derived for new-file mode differs from the
\* source path, and a new-file output step leaves the source file's content
\* as it was, whether the write succeeds or fails.  (The derivation is a
\* function of the path and the command alone; it is tried on the names
\* where no request is running.)
C26_NewFileNeverSource ==
    /\ [](pc = "idle" =>
             \A d \in C26_Dirs, n \in C26_Names, cmd \in CommandKeys :
                get_output_filename(File(d, n), cmd) # File(d, n))
    /\ [][(OutputStep /\ output_mode = "new-file" /\ TruthyPath(path)) =>
            /\ get_output_filename(path[1], command) # path[1]
            /\ path[1] \in DOMAIN fs'
            /\ fs'[path[1]] = fs[path[1]]]_vars

\* a.py documented into a new file: a.documented.py holds the result, a.py its code
C26_Witness ==
    /\ pc = "done" /\ output_mode = "new-file" /\ command = "doc" /\ path = <<a_py>>
    /\ ret = Saved(File(<<>>, <<"a",".","d","o","c","u","m","e","n","t","e","d",".","p","y">>))
    /\ fs[File(<<>>, <<"a",".","d","o","c","u","m","e","n","t","e","d",".","p","y">>)] = RemoteText
    /\ fs[a_py] = "code"

\* C27: in a process_command invocation with no file path, for each of the
\* seven commands and each output mode, no file is read or written, the
\* task handler makes no remote call, and the text returned is the handler's
\* "no content" notice.
C27_NoPathNoticeOnly ==
    (pc # "idle" /\ ~TruthyPath(path) /\ command \in Commands) =>
        /\ fs = fs0 /\ dirs = dirs0
        /\ file_content = <<>>
        /\ \A i \in DOMAIN steps : steps[i] # "read"
        /\ remoteCalls = 0
        /\ pc = "done" => ret = TextRet(Lookup(no_content_notice, command, ""))

\* a file write is pending: _handle_output will take a branch that writes
C28_WritePending ==
    \/ output_branch(output_mode, path) = "new-file"
    \/ output_branch(output_mode, path) = "in-place" /\ command \in in_place_commands

\* C28: the Approval Gate is entered only when a file write is pending: a
\* secure request whose output mode is console, or that has no file path, is
\* not prompted for approval and gets the result returned directly.
C28_GateOnlyWithPendingWrite ==
    /\ gate # "none" => C28_WritePending
    /\ (secure /\ (output_mode = "console" \/ ~TruthyPath(path))) =>
          /\ gate = "none"
          /\ (pc = "done" /\ ret.kind # "error") => ret = TextRet(result)

\* the step in which parse_intent ends, by returning or by raising
C29_ResolveStep == chat = "parse" /\ chat' # "parse"

\* C29: the intent parse_intent returns is a function of the user's text
\* alone: whatever the remote service answers, and also when its call fails,
\* parse_intent returns the command, path, output mode, approval flag and
\* target that its matching of the text gives.
C29_IntentFromTextAlone ==
    [][C29_ResolveStep =>
          /\ chat' = "dispatch"
          /\ intent' = parse_intent(user_input)
          /\ chatRet' = chatRet]_vars

\* the lines that end a chat session, trimmed and lower-cased
C30_EndWords == {<<"e","x","i","t">>, <<"q","u","i","t">>}

\* handle_chat_mode's loop is running
C30_InLoop == mainPc \in {"prompt", "request"}

\* the request ended in an error report, which is about to be printed
C30_ErrorReturned == mainPc = "request" /\ chat = "returned" /\ chatRet.kind = "error"

\* C30: in chat mode a request that ends in an error (a file that cannot be
\* read, a path that is not there, a failed remote call) does not end the
\* loop: the error is printed and the loop is at its prompt again, where the
\* next line is read.  The session ends only when exit or quit is read or
\* the user interrupts, at the chat prompt or at the approval prompt.
C30_ErrorsKeepLoop ==
    [][/\ C30_ErrorReturned =>
            /\ mainPc' = "prompt" /\ chat' = "idle" /\ pc' = "idle"
            /\ printed' = Append(printed, chatRet)
            /\ exitStatus' = exitStatus
            /\ linesRead' = linesRead
       /\ (C30_InLoop /\ ~C30_InLoop') =>
            /\ mainPc' = "exited" /\ exitStatus' = <<0>>
            /\ \/ /\ mainPc = "prompt" /\ stdin # <<>>
                  /\ Lower(Strip(stdin[1])) \in C30_EndWords
                  /\ linesRead' = linesRead + 1
               \/ /\ linesRead' = linesRead
                  /\ \/ mainPc = "prompt" /\ stdin = <<>>
                     \/ mainPc = "request" /\ pc = "interrupted" /\ gate = "prompting"
       /\ (mainPc = "prompt" /\ stdin # <<>> /\ stdin' = <<>>
             /\ Strip(stdin[1]) # <<>>
             /\ Lower(Strip(stdin[1])) \notin C30_EndWords \cup {<<"h","e","l","p">>}) =>
            mainPc' = "request" /\ user_input' = Strip(stdin[1])]_vars

\* a session whose first request failed on a file that is not there and
\* whose second request was then read and answered
C30_Witness ==
    /\ mainPc = "prompt" /\ linesRead = 2 /\ Len(printed) = 2
    /\ printed[1] = ErrorRet("Failed to read file")
    /\ printed[2] = TextRet(RemoteText)
    /\ exitStatus = <<>>

=============================================================================
